---- MODULE Spec2Model ----
(***************************************************************************)
(* RF-Powermeter_1v0.ino: setup() and loop() of the ZX47 RF power meter.   *)
(*                                                                         *)
(* The sketch is one cooperative control loop.  The state is the sketch's  *)
(* globals, the EEPROM cell at address 0, the millisecond counter read by  *)
(* millis(), the two analog input levels, and the frame last sent to the   *)
(* display.  setup() and one pass of loop() are one action each.           *)
(*                                                                         *)
(* Numbers: uint8_t / int16_t values are integers reduced to their width;  *)
(* the uint32_t millisecond values are pairs of 16 bit halves [hi, lo], so *)
(* that differences are taken modulo 2^32; fPwrdBm and fTamb are exact     *)
(* rationals, kept as numerators over DBM_DEN and TAMB_DEN.  The magnitude *)
(* printed in front of the W unit (pow(10, dBm/10)) is not modelled: the   *)
(* strPwrW variable keeps the text of line 268/275 or the unit suffix.     *)
(***************************************************************************)
EXTENDS Integers, Sequences, FiniteSets

VARIABLES
  pc,             \* "reset": at the reset vector, before setup(); "run": in loop()
  EEPROM0,        \* EEPROM[0]
  millis,         \* the counter millis() returns at the start of the next handler
  ainPwr,         \* level on A1 (ADC counts) at the next analogRead(AI_RFPWR)
  ainTemp,        \* level on A0 (ADC counts) at the next analogRead(AI_AMBTEMP)
  u8Att, u8AttLast,
  u8IdxUPwrRaw, u8IdxUTempRaw,
  as16UPwrRaw, as16UTempRaw,
  s16TmpPwr,      \* s16Tmp after line 254 (filtered power sample)
  s16TmpTemp,     \* s16Tmp after line 336 (filtered temperature sample)
  fPwrdBm,        \* numerator over DBM_DEN
  fTamb,          \* numerator over TAMB_DEN
  strPwrW, strPwrdBm, strTempAmb, strAtt,
  s16pushButtons,
  u32MillisCur, u32MillisLast,
  oled,           \* the display: dark ("off"), the splash screen, or the last frame sent
  eeWrite,        \* value the last handler wrote to EEPROM[0], NoWrite if it wrote nothing
  bootCause,      \* "power" or "chord": what led to the reset vector
  lastWrCur,      \* u32MillisCur of the latest loop pass of this run that wrote EEPROM[0]
  burstN,         \* upper-only passes sampled within DEBOUNCE ms of (and with) that pass
  burstAtt0,      \* u8Att before that pass
  chgPwr, chgTemp,\* level changes seen on A1 / A0 since reset
  runPwr, runTemp,\* consecutive loop insertions of the same sample, per channel
  readPwr,        \* the latest NSAMPLES samples read from A1 since reset, oldest first
  readTemp,       \* the same for A0
  elapsed         \* real time from the latest time stamp (line 172 / 234) to the
                  \* start of the next handler: [ov, t] stands for ov * 2^32 + t ms

vars == << pc, EEPROM0, millis, ainPwr, ainTemp, u8Att, u8AttLast, u8IdxUPwrRaw,
           u8IdxUTempRaw, as16UPwrRaw, as16UTempRaw, s16TmpPwr, s16TmpTemp,
           fPwrdBm, fTamb, strPwrW, strPwrdBm, strTempAmb, strAtt,
           s16pushButtons, u32MillisCur, u32MillisLast, oled, eeWrite,
           bootCause, lastWrCur, burstN, burstAtt0, chgPwr, chgTemp, runPwr, runTemp,
           readPwr, readTemp, elapsed >>

----------------------------------------------------------------------------
(* Program constants *)

ATT_MAX     == 49
DEBOUNCE    == 200
SPLASH_MS   == 2000
NSAMPLES    == 20
ADC_MAX     == 1023
PWR_LOW     == 583
PWR_OVL     == 167

\* fPwrdBm = (-2750/67) * ((s + 0.5) * (2.542/1024)) + 1820/67
\*         = (DBM_B - DBM_M * (2s + 1)) / DBM_DEN,  with 2750 * 2542 / 500 = 13981,
\*           2 * 1000 * 1024 / 500 = 4096, DBM_DEN = 67 * 4096, DBM_B = 1820 * 4096
DBM_M       == 13981
DBM_B       == 7454720
DBM_DEN     == 274432

\* fTamb = (15500/33) * ((s + 0.5) * (2.542/1024)) - 785/3
\*       = (TAMB_M * (2s + 1) - TAMB_B) / TAMB_DEN, with 15500 * 2542 / 1000 = 39401,
\*         TAMB_DEN = 33 * 2048, TAMB_B = 785 * 11 * 2048
TAMB_M      == 39401
TAMB_B      == 17684480
TAMB_DEN    == 67584

W8          == 256
W16         == 65536

NoWrite     == 0 - 1

----------------------------------------------------------------------------
(* Bounds of the model *)

MaxLatency  == 4      \* ms between the millis() of line 198 and that of line 234
MaxChanges  == 2      \* level changes of the analog inputs explored per run
RunCap      == 22     \* the run-length counters saturate here
BurstCap    == 3      \* the burst counter saturates here

----------------------------------------------------------------------------
(* uint32_t arithmetic on [hi, lo] *)

U32(n) == [hi |-> (n \div W16) % W16, lo |-> n % W16]

U32Add(a, d) ==
  LET l == a.lo + d
  IN  [hi |-> (a.hi + (l \div W16)) % W16, lo |-> l % W16]

U32Sub(a, b) ==
  LET l == a.lo - b.lo
      borrow == IF l < 0 THEN 1 ELSE 0
  IN  [hi |-> (a.hi - b.hi - borrow) % W16, lo |-> l % W16]

\* real time [ov, t] after ms more milliseconds; ov saturates at 1
Later(e, ms) ==
  LET t == U32Add(e.t, ms)
  IN  [ov |-> IF t.hi < e.t.hi \/ e.ov > 0 THEN 1 ELSE 0, t |-> t]

\* a > k for a small k (k < 2^16)
U32Gt(a, k) == a.hi > 0 \/ a.lo > k

\* a >= k for a small k
U32Ge(a, k) == a.hi > 0 \/ a.lo >= k

----------------------------------------------------------------------------
(* Formatting *)

\* dtostrf(x, w, prec, s) rounds to the nearest, halves away from zero
RoundHalfAway(n, d) ==
  IF n >= 0 THEN (2 * n + d) \div (2 * d)
            ELSE 0 - ((2 * (0 - n) + d) \div (2 * d))

Blank == [kind |-> "blank", val |-> 0]

----------------------------------------------------------------------------
(* Attenuation: lines 198 - 236 *)

\* line 200: (u32MillisCur - u32MillisLast) > 200, on uint32_t
WindowOpenAbs(cur, last) ==
  LET d == U32Add(last, DEBOUNCE)
  IN  cur.hi > d.hi \/ (cur.hi = d.hi /\ cur.lo > d.lo)

WindowOpenGe(cur, last) == U32Ge(U32Sub(cur, last), DEBOUNCE)

WindowOpen(cur, last) == U32Gt(U32Sub(cur, last), DEBOUNCE)

\* lines 207 - 210: if ( ++u8Att > 49 ) u8Att = 49;
AttUpNoClamp(att) == (att + 1) % W8

AttUp(att) ==
  LET inc == (att + 1) % W8
  IN  IF inc > ATT_MAX THEN ATT_MAX ELSE inc

\* lines 214 - 217: if ( u8Att > 0 ) u8Att--;
AttDownFloorOne(att) == IF att > 1 THEN att - 1 ELSE att

AttDown(att) == IF att > 0 THEN att - 1 ELSE att

\* the switch of lines 204 - 226, for the masks that do not reset
AttStepAnyUpper(mask, att) ==
  CASE mask % 2 = 1 -> AttUp(att)
    [] mask = 2     -> AttDown(att)
    [] OTHER        -> att

AttStep(mask, att) ==
  CASE mask = 1 -> AttUp(att)
    [] mask = 2 -> AttDown(att)
    [] OTHER    -> att

----------------------------------------------------------------------------
(* Filter: lines 240 - 254 and 322 - 336 *)

\* the int16_t with the low 16 bits of x (two's complement)
ToInt16Narrow(x) == ((x + W16 \div 8) % (W16 \div 4)) - W16 \div 8

ToInt16(x) == ((x + W16 \div 2) % W16) - W16 \div 2

\* if ( ++idx > (sizeof(array) / 2) - 1 ) idx = 0;
NextIdxShort(idx) == IF (idx + 1) % W8 > NSAMPLES - 2 THEN 0 ELSE (idx + 1) % W8

NextIdx(idx) == IF (idx + 1) % W8 > NSAMPLES - 1 THEN 0 ELSE (idx + 1) % W8

\* s16Tmp = 0; for (...) s16Tmp += array[u8Count];   (int16_t accumulator)
RECURSIVE Accumulate(_, _)
Accumulate(buf, n) ==
  IF n = 0 THEN 0 ELSE ToInt16(Accumulate(buf, n - 1) + buf[n - 1])

\* s16Tmp = s16Tmp / (sizeof(array) / 2): the divisor is a size_t, so the
\* dividend is converted to unsigned 16 bit before the division
FilterAvgOff(buf) == ToInt16((Accumulate(buf, NSAMPLES) % W16) \div (NSAMPLES + 1))

FilterAvg(buf) == ToInt16((Accumulate(buf, NSAMPLES) % W16) \div NSAMPLES)

----------------------------------------------------------------------------
(* Calibration and formatting: lines 264 - 317, 346 - 367 *)

\* line 264, numerator over DBM_DEN
PwrdBmNum(s) == DBM_B - DBM_M * (2 * s + 1)

\* line 346, numerator over TAMB_DEN
TambNum(s) == TAMB_M * (2 * s + 1) - TAMB_B

\* lines 286 - 315: the unit of strPwrW for a dBm value d (numerator over DBM_DEN)
AutorangeLe(d) ==
  IF d <= (0 - 30) * DBM_DEN THEN "nW"
  ELSE IF d <= 0 THEN "uW"
  ELSE IF d <= 30 * DBM_DEN THEN "mW"
  ELSE "W "

Autorange(d) ==
  IF d < (0 - 30) * DBM_DEN THEN "nW"
  ELSE IF d < 0 THEN "uW"
  ELSE IF d < 30 * DBM_DEN THEN "mW"
  ELSE "W "

\* lines 282 - 283: dtostrf(fPwrdBm, 5, 1, strTmp), in tenths of a dBm
FmtdBm(d) == [kind |-> "num", val |-> RoundHalfAway(10 * d, DBM_DEN)]

\* lines 282 - 315: the two power strings for a valid dBm value d
FormatPower(d) == [dbm |-> d, w |-> Autorange(d), txt |-> FmtdBm(d)]

\* lines 264 - 317: fPwrdBm and the two power strings for the filtered sample s
\* and the attenuation att
PowerSectionNoAtt(s, att) ==
  LET raw == PwrdBmNum(s)
  IN  IF s > PWR_LOW
        THEN [dbm |-> raw, w |-> "RF low! ", txt |-> [kind |-> "dash", val |-> 0]]
      ELSE IF s < PWR_OVL
        THEN [dbm |-> raw, w |-> "RF ovl! ", txt |-> [kind |-> "dash", val |-> 0]]
      ELSE FormatPower(raw)

PowerSectionNoOvl(s, att) ==
  LET raw == PwrdBmNum(s)
  IN  IF s > PWR_LOW
        THEN [dbm |-> raw, w |-> "RF low! ", txt |-> [kind |-> "dash", val |-> 0]]
      ELSE FormatPower(raw + att * DBM_DEN)

PowerSection(s, att) ==
  LET raw == PwrdBmNum(s)
  IN  IF s > PWR_LOW
        THEN [dbm |-> raw, w |-> "RF low! ", txt |-> [kind |-> "dash", val |-> 0]]
      ELSE IF s < PWR_OVL
        THEN [dbm |-> raw, w |-> "RF ovl! ", txt |-> [kind |-> "dash", val |-> 0]]
      ELSE FormatPower(raw + att * DBM_DEN)                     \* line 280

\* lines 349 - 364
FmtTemp(t) ==
  IF t < (0 - 55) * TAMB_DEN THEN [kind |-> "low", val |-> 0]
  ELSE IF t > 100 * TAMB_DEN THEN [kind |-> "high", val |-> 0]
  ELSE [kind |-> "num", val |-> RoundHalfAway(t, TAMB_DEN)]

\* line 367: sprintf(strAtt, "%2d dB", u8Att)
FmtAtt(att) == [kind |-> "num", val |-> att]

----------------------------------------------------------------------------
(* The state at the reset vector: the globals of lines 96 - 136 as the C   *)
(* runtime initialises them; EEPROM[0] and the display are left alone.     *)

NoStamp == [set |-> FALSE, at |-> U32(0)]

RamInit ==
  /\ u8Att = 0 /\ u8AttLast = 0
  /\ u8IdxUPwrRaw = 0 /\ u8IdxUTempRaw = 0
  /\ as16UPwrRaw = [i \in 0..(NSAMPLES - 1) |-> 0]
  /\ as16UTempRaw = [i \in 0..(NSAMPLES - 1) |-> 0]
  /\ s16TmpPwr = 0 /\ s16TmpTemp = 0
  /\ fTamb = 0
  /\ strPwrW = "        " /\ strPwrdBm = Blank /\ strTempAmb = Blank /\ strAtt = Blank
  /\ s16pushButtons = 0
  /\ u32MillisCur = U32(0) /\ u32MillisLast = U32(0)

\* power-on: any byte of EE in EEPROM[0], the display dark, the clock at 0
EnvInit(EE, PwrLevels, TempLevels) ==
  /\ EEPROM0 \in EE
  /\ millis = U32(0)
  /\ ainPwr \in PwrLevels
  /\ ainTemp \in TempLevels
  /\ oled = [kind |-> "off", w |-> "        ", dbm |-> Blank, att |-> Blank, temp |-> Blank]
  /\ eeWrite = NoWrite
  /\ bootCause = "power"
  /\ lastWrCur = NoStamp
  /\ burstN = 0 /\ burstAtt0 = 0
  /\ chgPwr = 0 /\ chgTemp = 0
  /\ runPwr = 0 /\ runTemp = 0
  /\ readPwr = << >> /\ readTemp = << >>
  /\ elapsed = [ov |-> 0, t |-> U32(0)]

InitWith(EE, PwrLevels, TempLevels) ==
  /\ pc = "reset"
  /\ EnvInit(EE, PwrLevels, TempLevels)
  /\ RamInit
  /\ fPwrdBm = 0

----------------------------------------------------------------------------
(* setup(): lines 139 - 183 *)

\* lines 161 - 170: NSAMPLES reads of one channel; the level on the pin is
\* `level` for the first k reads and `alt` for the rest (k = NSAMPLES: no change)
Prefill(level, alt, k) == [i \in 0..(NSAMPLES - 1) |-> IF i < k THEN level ELSE alt]

\* the fills explored: no change, or a change to a level of Alt after k reads
FillChoices(level, Alt, Splits) ==
  {[k |-> NSAMPLES, v |-> level]} \cup
  {[k |-> k, v |-> v] : k \in Splits \cap 1..(NSAMPLES - 1), v \in Alt \ {level}}

\* lines 150 - 158
SetupAttNoReset(ee) == [att |-> ee, last |-> ee, ee |-> ee, wr |-> NoWrite]

SetupAttNoLast(ee) ==
  IF ee > ATT_MAX
    THEN [att |-> 0, last |-> 0, ee |-> 0, wr |-> 0]
    ELSE [att |-> ee, last |-> 0, ee |-> ee, wr |-> NoWrite]

SetupAttNoRead(ee) ==
  IF ee > ATT_MAX
    THEN [att |-> 0, last |-> 0, ee |-> 0, wr |-> 0]
    ELSE [att |-> 0, last |-> 0, ee |-> ee, wr |-> NoWrite]

SetupAtt(ee) ==
  IF ee > ATT_MAX
    THEN [att |-> 0, last |-> 0, ee |-> 0, wr |-> 0]
    ELSE [att |-> ee, last |-> ee, ee |-> ee, wr |-> NoWrite]

Setup(PwrAlt, TempAlt, Splits) ==
  /\ pc = "reset"
  /\ \E fp \in FillChoices(ainPwr, PwrAlt, Splits),
        ft \in FillChoices(ainTemp, TempAlt, Splits),
        s \in {MaxLatency} :
       LET a    == SetupAtt(EEPROM0)
           cp   == IF fp.k < NSAMPLES THEN 1 ELSE 0
           ct   == IF ft.k < NSAMPLES THEN 1 ELSE 0
           t172 == U32Add(millis, s)
       IN  /\ cp + ct <= MaxChanges
           /\ EEPROM0' = a.ee
           /\ eeWrite' = a.wr
           /\ u8Att' = a.att
           /\ u8AttLast' = a.last
           /\ as16UPwrRaw' = Prefill(ainPwr, fp.v, fp.k)
           /\ as16UTempRaw' = Prefill(ainTemp, ft.v, ft.k)
           /\ ainPwr' = fp.v
           /\ ainTemp' = ft.v
           /\ chgPwr' = cp
           /\ chgTemp' = ct
           /\ readPwr' = [i \in 1..NSAMPLES |-> IF i <= fp.k THEN ainPwr ELSE fp.v]
           /\ readTemp' = [i \in 1..NSAMPLES |-> IF i <= ft.k THEN ainTemp ELSE ft.v]
           /\ u32MillisLast' = t172                       \* line 172
           /\ elapsed' = [ov |-> 0, t |-> U32(SPLASH_MS)]
           /\ millis' = U32Add(t172, SPLASH_MS)           \* line 181
  /\ oled' = [kind |-> "splash", w |-> "        ", dbm |-> Blank,
              att |-> Blank, temp |-> Blank]               \* lines 177 - 180
  /\ pc' = "run"
  /\ UNCHANGED << u8IdxUPwrRaw, u8IdxUTempRaw, s16TmpPwr, s16TmpTemp, fPwrdBm, fTamb,
                  strPwrW, strPwrdBm, strTempAmb, strAtt, s16pushButtons, u32MillisCur,
                  bootCause, lastWrCur, burstN, burstAtt0, runPwr, runTemp >>

----------------------------------------------------------------------------
(* loop(): lines 186 - 370 *)

\* line 221: softReset() jumps to address 0: the C runtime initialises the
\* globals again (the millisecond counter of the core among them), EEPROM[0]
\* and the display content stay; the rest of the pass does not run
SoftReset ==
  /\ pc' = "reset"
  /\ millis' = U32(0)
  /\ u8Att' = 0 /\ u8AttLast' = 0
  /\ u8IdxUPwrRaw' = 0 /\ u8IdxUTempRaw' = 0
  /\ as16UPwrRaw' = [i \in 0..(NSAMPLES - 1) |-> 0]
  /\ as16UTempRaw' = [i \in 0..(NSAMPLES - 1) |-> 0]
  /\ s16TmpPwr' = 0 /\ s16TmpTemp' = 0
  /\ fPwrdBm' = 0 /\ fTamb' = 0
  /\ strPwrW' = "        " /\ strPwrdBm' = Blank /\ strTempAmb' = Blank /\ strAtt' = Blank
  /\ s16pushButtons' = 0
  /\ u32MillisCur' = U32(0) /\ u32MillisLast' = U32(0)
  /\ eeWrite' = NoWrite
  /\ bootCause' = "chord"
  /\ lastWrCur' = NoStamp
  /\ burstN' = 0 /\ burstAtt0' = 0
  /\ chgPwr' = 0 /\ chgTemp' = 0
  /\ runPwr' = 0 /\ runTemp' = 0
  /\ readPwr' = << >> /\ readTemp' = << >>
  /\ elapsed' = [ov |-> 0, t |-> U32(0)]
  /\ UNCHANGED << EEPROM0, ainPwr, ainTemp, oled >>

\* lines 202 - 235: the pass acts on the buttons (and takes the time stamp of
\* line 234) when the window is open and a button is down
ActsAlways(open, mask) == open

Acts(open, mask) == open /\ mask # 0

\* the level read from a pin in this pass: the level as it is, or a new one
LevelChoices(level, Alt, budget) ==
  {level} \cup (IF budget > 0 THEN Alt \ {level} ELSE {})

Min(a, b) == IF a < b THEN a ELSE b

\* One pass of loop() with its inputs: the button mask, the ms between the
\* millis() of line 198 and that of line 234, the ms the whole pass takes, and
\* the two ADC samples; avgP and avgT are the two filter outputs of the pass
LoopBody(mask, lat, dur, p, q, pbuf, tbuf, avgP, avgT) ==
  LET cur    == millis                                          \* line 198
      open   == WindowOpen(cur, u32MillisLast)                  \* line 200
      acts   == Acts(open, mask)                                \* line 202
      att1   == IF acts THEN AttStep(mask, u8Att) ELSE u8Att    \* lines 204 - 226
      write  == acts /\ att1 # u8AttLast                        \* line 228
      inSpan == /\ burstN > 0 /\ mask = 1
                /\ ~U32Gt(U32Sub(cur, lastWrCur.at), DEBOUNCE)
      pPrev  == as16UPwrRaw[(u8IdxUPwrRaw + NSAMPLES - 1) % NSAMPLES]
      tPrev  == as16UTempRaw[(u8IdxUTempRaw + NSAMPLES - 1) % NSAMPLES]
  IN  IF acts /\ mask = 7
        THEN SoftReset                                          \* line 221
        ELSE \E ps \in {PowerSection(avgP, att1)}, ts \in {FmtTemp(TambNum(avgT))} :
          /\ pc' = "run"
          /\ s16pushButtons' = mask                             \* lines 190 - 192
          /\ u32MillisCur' = cur
          /\ u8Att' = att1
          /\ EEPROM0' = IF write THEN att1 ELSE EEPROM0         \* line 230
          /\ u8AttLast' = IF write THEN att1 ELSE u8AttLast     \* line 231
          /\ eeWrite' = IF write THEN att1 ELSE NoWrite
          /\ u32MillisLast' = IF acts THEN U32Add(cur, lat)     \* line 234
                                      ELSE u32MillisLast
          /\ as16UPwrRaw' = pbuf                                \* line 240
          /\ u8IdxUPwrRaw' = NextIdx(u8IdxUPwrRaw)              \* lines 242 - 245
          /\ s16TmpPwr' = avgP                                  \* lines 248 - 254
          /\ fPwrdBm' = ps.dbm                                  \* lines 264, 280
          /\ strPwrW' = ps.w
          /\ strPwrdBm' = ps.txt
          /\ as16UTempRaw' = tbuf                               \* line 322
          /\ u8IdxUTempRaw' = NextIdx(u8IdxUTempRaw)            \* lines 324 - 327
          /\ s16TmpTemp' = avgT                                 \* lines 330 - 336
          /\ fTamb' = TambNum(avgT)                             \* line 346
          /\ strTempAmb' = ts                                   \* lines 349 - 364
          /\ strAtt' = FmtAtt(att1)                             \* line 367
          /\ oled' = [kind |-> "frame", w |-> ps.w, dbm |-> ps.txt,
                      att |-> FmtAtt(att1), temp |-> ts]        \* line 369
          /\ millis' = U32Add(cur, dur)
          /\ ainPwr' = p
          /\ ainTemp' = q
          /\ readPwr' = Append(Tail(readPwr), p)
          /\ readTemp' = Append(Tail(readTemp), q)
          /\ elapsed' = IF acts THEN [ov |-> 0, t |-> U32(dur - lat)]
                                ELSE Later(elapsed, dur)
          /\ chgPwr' = chgPwr + (IF p # ainPwr THEN 1 ELSE 0)
          /\ chgTemp' = chgTemp + (IF q # ainTemp THEN 1 ELSE 0)
          /\ runPwr' = IF runPwr > 0 /\ p = pPrev THEN Min(runPwr + 1, RunCap) ELSE 1
          /\ runTemp' = IF runTemp > 0 /\ q = tPrev THEN Min(runTemp + 1, RunCap) ELSE 1
          /\ lastWrCur' = IF write THEN [set |-> TRUE, at |-> cur] ELSE lastWrCur
          /\ burstN' = IF inSpan THEN Min(burstN + 1, BurstCap)
                       ELSE IF write /\ mask = 1 THEN 1 ELSE 0
          /\ burstAtt0' = IF inSpan THEN burstAtt0
                          ELSE IF write /\ mask = 1 THEN u8Att ELSE 0
          /\ UNCHANGED bootCause

\* ms between the millis() of line 198 and that of line 234: they are apart by
\* the switch alone, or by the EEPROM write of line 230 as well
LatChoices(mask) ==
  IF /\ Acts(WindowOpen(millis, u32MillisLast), mask)
     /\ AttStep(mask, u8Att) # u8AttLast
    THEN {0, MaxLatency}
    ELSE {0}

\* One pass with its inputs drawn from Masks, Durs, PwrAlt and TempAlt; the
\* analog levels change at most `budget` times in this pass
LoopPass(Masks, Durs, PwrAlt, TempAlt, budget) ==
  \E p \in LevelChoices(ainPwr, PwrAlt, budget) :
  \E q \in LevelChoices(ainTemp, TempAlt, budget - (IF p # ainPwr THEN 1 ELSE 0)) :
  \E pbuf \in {[as16UPwrRaw EXCEPT ![u8IdxUPwrRaw] = p]},
     tbuf \in {[as16UTempRaw EXCEPT ![u8IdxUTempRaw] = q]} :
  \E avgP \in {FilterAvg(pbuf)}, avgT \in {FilterAvg(tbuf)} :
  \E mask \in Masks, dur \in Durs :
  \E lat \in LatChoices(mask) :
    LoopBody(mask, lat, dur, p, q, pbuf, tbuf, avgP, avgT)

\* Masks, Durs, PwrAlt and TempAlt are the inputs explored; the analog levels
\* change only before the clock reads Settle, and no pass starts at or after
\* Until
Loop(Masks, Durs, PwrAlt, TempAlt, Settle, Until) ==
  /\ pc = "run"
  /\ millis.hi = 0 /\ millis.lo < Until
  /\ LoopPass(Masks, Durs, PwrAlt, TempAlt,
              IF millis.lo < Settle THEN MaxChanges - chgPwr - chgTemp ELSE 0)

----------------------------------------------------------------------------
(* Specifications *)

AllMasks == 0..7

\* Buttons and clock: every mask, passes of 100 or 101 ms, every EEPROM byte;
\* the analog inputs rest at mid-range levels.
PwrRest  == 400
TempRest == 250
Horizon  == 2250

Init == InitWith(0..(W8 - 1), {PwrRest}, {TempRest})

SetupStep == Setup({}, {}, {})

LoopStep == Loop(AllMasks, {100, 101}, {}, {}, 0, Horizon)

Next == SetupStep \/ LoopStep

Spec == Init /\ [][Next]_vars

\* Buttons without the chord: every mask but 7, so that no pass jumps to the
\* reset vector.
InitNoChord == InitWith(0..(W8 - 1), {PwrRest}, {TempRest})

NoChordSetup == Setup({}, {}, {})

NoChordLoop == Loop(AllMasks \ {7}, {100, 101}, {}, {}, 0, Horizon)

NextNoChord == NoChordSetup \/ NoChordLoop

SpecNoChord == InitNoChord /\ [][NextNoChord]_vars

\* Press and hold: the first pass finds the upper or the middle button down
\* and every later pass finds the same button down; main() calls loop() for
\* ever and every pass takes 100 ms, so a pass that can run does run.
HoldStarts  == {0, 25, ATT_MAX, W8 - 1}
HoldHorizon == 17500

InitHold == InitWith(HoldStarts, {PwrRest}, {TempRest})

HoldSetup == Setup({}, {}, {})

HoldLoop(m) ==
  /\ s16pushButtons \in {0, m}
  /\ Loop({m}, {100}, {}, {}, 0, HoldHorizon)

HoldUpper == HoldLoop(1)

HoldMiddle == HoldLoop(2)

NextHold == HoldSetup \/ HoldUpper \/ HoldMiddle

SpecHold == InitHold /\ [][NextHold]_vars /\ WF_vars(NextHold)

\* Calibration: every constant level on A1, with and without attenuation.
CalHorizon == 2150

InitCal == InitWith({0, ATT_MAX}, 0..ADC_MAX, {TempRest})

CalSetup == Setup({}, {}, {})

CalLoop == Loop({0, 2}, {100}, {}, {}, 0, CalHorizon)

NextCal == CalSetup \/ CalLoop

SpecCal == InitCal /\ [][NextCal]_vars

\* Filters: the levels on A1 and A0 change up to MaxChanges times, during the
\* fills of setup() or in the first passes, and then rest for more than
\* NSAMPLES passes.
FilterLevels  == {0, 1, ADC_MAX}
FilterSplits  == {1, 5, 10, 15, 19}
FilterSettle  == 2400
FilterHorizon == 4500

InitFilter == InitWith({0}, FilterLevels, {TempRest})

FilterSetup == Setup(FilterLevels, {TempRest, TempRest + 1}, FilterSplits)

FilterLoop ==
  Loop({0}, {100}, FilterLevels, {TempRest, TempRest + 1}, FilterSettle, FilterHorizon)

NextFilter == FilterSetup \/ FilterLoop

SpecFilter == InitFilter /\ [][NextFilter]_vars

\* Recovery: the level on A1 starts in range, too low (ADC_MAX counts) or in
\* overload (0 counts) and changes up to MaxChanges times before the clock
\* reads RecSettle, with the upper button pressed or not in every pass.
RecLevels  == {0, PwrRest, ADC_MAX}
RecSettle  == 2300
RecHorizon == 3800

InitRec == InitWith({0}, RecLevels, {TempRest})

RecSetup == Setup({}, {}, {})

RecLoop == Loop({0, 1}, {100}, RecLevels, {}, RecSettle, RecHorizon)

NextRec == RecSetup \/ RecLoop

SpecRec == InitRec /\ [][NextRec]_vars

\* Ring buffers: the levels change as under SpecFilter, and a pass may find
\* all three buttons down and jump to the reset vector.
InitRing == InitWith({0}, FilterLevels, {TempRest})

RingSetup == Setup(FilterLevels, {TempRest, TempRest + 1}, FilterSplits)

RingLoop ==
  Loop({0, 7}, {100}, FilterLevels, {TempRest, TempRest + 1}, FilterSettle, FilterHorizon)

NextRing == RingSetup \/ RingLoop

SpecRing == InitRing /\ [][NextRing]_vars

\* Counter wrap: the sketch has been running at rest for a long time and the
\* millisecond counter is WrapLead ms before 2^32.  The latest time stamp was
\* taken 150 or 250 ms ago, or (no button touched since) 2^32 - 380 or
\* 2^32 - 480 ms ago, so that the counter is about to pass the stamp's value.
WrapLead    == 450
WrapHorizon == 600
WrapStart   == U32Sub(U32(0), U32(WrapLead))

WrapStamps ==
  {[last |-> U32Sub(WrapStart, U32(x)), el |-> [ov |-> 0, t |-> U32(x)]] : x \in {150, 250}}
  \cup
  {[last |-> U32Add(WrapStart, x), el |-> [ov |-> 0, t |-> U32Sub(U32(0), U32(x))]] :
     x \in {380, 480}}

InitWrap ==
  \E att \in {0, 25, ATT_MAX}, st \in WrapStamps :
  \E ps \in {PowerSection(PwrRest, att)}, ts \in {FmtTemp(TambNum(TempRest))} :
    /\ pc = "run"
    /\ EEPROM0 = att /\ u8Att = att /\ u8AttLast = att
    /\ millis = WrapStart
    /\ u32MillisCur = U32Sub(WrapStart, U32(100))
    /\ u32MillisLast = st.last
    /\ elapsed = st.el
    /\ ainPwr = PwrRest /\ ainTemp = TempRest
    /\ as16UPwrRaw = [i \in 0..(NSAMPLES - 1) |-> PwrRest]
    /\ as16UTempRaw = [i \in 0..(NSAMPLES - 1) |-> TempRest]
    /\ readPwr = [i \in 1..NSAMPLES |-> PwrRest]
    /\ readTemp = [i \in 1..NSAMPLES |-> TempRest]
    /\ u8IdxUPwrRaw = 0 /\ u8IdxUTempRaw = 0
    /\ s16TmpPwr = PwrRest /\ s16TmpTemp = TempRest
    /\ fPwrdBm = ps.dbm /\ strPwrW = ps.w /\ strPwrdBm = ps.txt
    /\ fTamb = TambNum(TempRest) /\ strTempAmb = ts
    /\ strAtt = FmtAtt(att)
    /\ oled = [kind |-> "frame", w |-> ps.w, dbm |-> ps.txt, att |-> FmtAtt(att), temp |-> ts]
    /\ s16pushButtons = 0
    /\ eeWrite = NoWrite
    /\ bootCause = "power"
    /\ lastWrCur = NoStamp
    /\ burstN = 0 /\ burstAtt0 = 0
    /\ chgPwr = 0 /\ chgTemp = 0
    /\ runPwr = RunCap /\ runTemp = RunCap

WrapLoop ==
  /\ pc = "run"
  /\ millis.hi = W16 - 1 \/ (millis.hi = 0 /\ millis.lo < WrapHorizon)
  /\ LoopPass({0, 1, 2}, {100}, {}, {}, 0)

NextWrap == WrapLoop

SpecWrap == InitWrap /\ [][NextWrap]_vars

\* Autoranging as a function of the dBm value: lines 282 - 315 applied to
\* values on a grid of tenths from -60.0 to +60.0 dBm and to the values next
\* to the three comparisons.
RangeInputs ==
  {(k * DBM_DEN) \div 10 : k \in (0 - 600)..600} \cup
  {b * DBM_DEN + e : b \in {0 - 30, 0, 30}, e \in {0 - 1, 0, 1}}

InitRange ==
  /\ pc = "format"
  /\ EnvInit({0}, {PwrRest}, {TempRest})
  /\ RamInit
  /\ fPwrdBm \in RangeInputs

FormatStep ==
  /\ pc = "format"
  /\ \E r \in {FormatPower(fPwrdBm)} :
       /\ strPwrW' = r.w
       /\ strPwrdBm' = r.txt
  /\ pc' = "formatted"
  /\ UNCHANGED << EEPROM0, millis, ainPwr, ainTemp, u8Att, u8AttLast, u8IdxUPwrRaw,
                  u8IdxUTempRaw, as16UPwrRaw, as16UTempRaw, s16TmpPwr, s16TmpTemp,
                  fPwrdBm, fTamb, strTempAmb, strAtt, s16pushButtons, u32MillisCur,
                  u32MillisLast, oled, eeWrite, bootCause, lastWrCur, burstN,
                  burstAtt0, chgPwr, chgTemp, runPwr, runTemp, readPwr, readTemp, elapsed >>

NextRange == FormatStep

SpecRange == InitRange /\ [][NextRange]_vars

\* The filter as a function of the buffer: lines 247 - 254 and 329 - 336
\* applied to buffers of two levels (the first k slots at a, the rest at b)
\* and to ramps; the temperature buffer holds the same samples in reverse.
AvgLevels == {0, 1, 19, 20, 511, ADC_MAX - 1, ADC_MAX}

AvgInputs ==
  {[i \in 0..(NSAMPLES - 1) |-> IF i < k THEN a ELSE b] :
     a \in AvgLevels, b \in AvgLevels, k \in 0..NSAMPLES}
  \cup
  {[i \in 0..(NSAMPLES - 1) |-> (a + i * d) % (ADC_MAX + 1)] :
     a \in AvgLevels, d \in {1, 7, 53}}

InitAvg ==
  /\ pc = "filter"
  /\ EnvInit({0}, {PwrRest}, {TempRest})
  /\ u8Att = 0 /\ u8AttLast = 0
  /\ u8IdxUPwrRaw = 0 /\ u8IdxUTempRaw = 0
  /\ \E b \in AvgInputs :
       /\ as16UPwrRaw = b
       /\ as16UTempRaw = [i \in 0..(NSAMPLES - 1) |-> b[NSAMPLES - 1 - i]]
  /\ s16TmpPwr = 0 /\ s16TmpTemp = 0
  /\ fPwrdBm = 0 /\ fTamb = 0
  /\ strPwrW = "        " /\ strPwrdBm = Blank /\ strTempAmb = Blank /\ strAtt = Blank
  /\ s16pushButtons = 0
  /\ u32MillisCur = U32(0) /\ u32MillisLast = U32(0)

AvgStep ==
  /\ pc = "filter"
  /\ s16TmpPwr' = FilterAvg(as16UPwrRaw)
  /\ s16TmpTemp' = FilterAvg(as16UTempRaw)
  /\ pc' = "filtered"
  /\ UNCHANGED << EEPROM0, millis, ainPwr, ainTemp, u8Att, u8AttLast, u8IdxUPwrRaw,
                  u8IdxUTempRaw, as16UPwrRaw, as16UTempRaw, fPwrdBm, fTamb,
                  strPwrW, strPwrdBm, strTempAmb, strAtt, s16pushButtons,
                  u32MillisCur, u32MillisLast, oled, eeWrite, bootCause, lastWrCur,
                  burstN, burstAtt0, chgPwr, chgTemp, runPwr, runTemp, readPwr,
                  readTemp, elapsed >>

NextAvg == AvgStep

SpecAvg == InitAvg /\ [][NextAvg]_vars

----------------------------------------------------------------------------
(* Properties of the attenuation step, checked under Spec *)

\* the pass that led to this state took the time stamp of line 234
Acted ==
  /\ pc = "run" /\ oled.kind = "frame"
  /\ ~U32Gt(U32Sub(u32MillisLast, u32MillisCur), MaxLatency)

\* a step of loop() that returns (it did not jump to the reset vector)
PassStep == pc = "run" /\ pc' = "run"

\* the mask and attenuation for which the switch of lines 204 - 226 changes u8Att
Changing(mask, att) == (mask = 1 /\ att < ATT_MAX) \/ (mask = 2 /\ att > 0)

AttInRange ==
  /\ u8Att \in 0..ATT_MAX
  /\ u8AttLast \in 0..ATT_MAX
  /\ eeWrite # NoWrite => eeWrite \in 0..ATT_MAX
  /\ strAtt.kind = "num" => strAtt.val \in 0..ATT_MAX
  /\ oled.kind = "frame" => oled.att.val \in 0..ATT_MAX
  /\ strPwrdBm.kind = "num" =>
       \E a \in 0..ATT_MAX : fPwrdBm = PwrdBmNum(s16TmpPwr) + a * DBM_DEN

ClampStep ==
  PassStep =>
    /\ (s16pushButtons' = 1 /\ u8Att = ATT_MAX) => u8Att' = ATT_MAX
    /\ (s16pushButtons' = 2 /\ u8Att = 0) => u8Att' = 0

\* C1: in every state after startup and after every pass of loop(), whatever
\* the EEPROM byte was and whatever masks and clock values came, the attenuation
\* (u8Att, the value written to EEPROM[0], the value in the ATT string and on
\* the display, the offset added to the dBm value) is in 0..49; a pass with the
\* upper button at 49 leaves 49 and a pass with the middle button at 0 leaves 0.
C1_AttClamped == []AttInRange /\ [][ClampStep]_vars

\* C1 witness: a pass acted on the upper button at 49 and the value stayed 49
C1_Witness ==
  Acted /\ s16pushButtons = 1 /\ u8Att = ATT_MAX /\ eeWrite = NoWrite /\ burstN = 0

\* C2 (as claimed): the EEPROM write of a changed value comes at least 200 ms
\* after the button sample that changed it.  u32MillisCur is the clock at that
\* sample (line 198), u32MillisLast the clock read after the write (line 234).
C2_WriteAfter200ms ==
  [][(PassStep /\ eeWrite' # NoWrite) =>
       U32Ge(U32Sub(u32MillisLast', u32MillisCur'), DEBOUNCE)]_vars

\* C3 (as claimed): a pass writes EEPROM[0] exactly when at least 200 ms have
\* gone by since the time stamp and the mask changes the attenuation.
C3_WriteIffGe200 ==
  [][PassStep =>
       ((eeWrite' # NoWrite) <=>
          (/\ U32Ge(U32Sub(u32MillisCur', u32MillisLast), DEBOUNCE)
           /\ Changing(s16pushButtons', u8Att)))]_vars

\* C3 (amended): a pass writes EEPROM[0] exactly when more than 200 ms have
\* gone by since the time stamp and the mask changes the attenuation (upper
\* alone below 49, middle alone above 0); the value written is the new one.
C3_WriteIffGt200 ==
  [][PassStep =>
       /\ (eeWrite' # NoWrite) <=>
            (/\ U32Gt(U32Sub(u32MillisCur', u32MillisLast), DEBOUNCE)
             /\ Changing(s16pushButtons', u8Att))
       /\ eeWrite' # NoWrite => (eeWrite' = u8Att' /\ EEPROM0' = u8Att' /\ u8Att' # u8Att)
       /\ eeWrite' = NoWrite => EEPROM0' = EEPROM0]_vars

\* C3 witness: a changing press sampled exactly 200 ms after the time stamp
\* was not acted on and nothing was written
C3_Witness ==
  /\ pc = "run" /\ oled.kind = "frame"
  /\ s16pushButtons = 1 /\ u8Att < ATT_MAX /\ eeWrite = NoWrite
  /\ U32Sub(u32MillisCur, u32MillisLast) = U32(DEBOUNCE)

BurstOneIncrement ==
  burstN >= 1 => (EEPROM0 = burstAtt0 + 1 /\ u8Att = burstAtt0 + 1)

WriteSpacing ==
  PassStep =>
    /\ (eeWrite' # NoWrite /\ lastWrCur.set) =>
          U32Gt(U32Sub(u32MillisCur', lastWrCur.at), DEBOUNCE)
    /\ u8Att' # u8Att =>
          (eeWrite' # NoWrite /\ (u8Att' = u8Att + 1 \/ u8Att' = u8Att - 1))

\* C4: two passes of loop() that write EEPROM[0] are sampled more than 200 ms
\* apart, the attenuation changes only in a pass that writes and then by one
\* step, and upper-only presses sampled within 200 ms of a press that was
\* accepted below 49 leave exactly one stored increment.
C4_OneWritePerWindow == []BurstOneIncrement /\ [][WriteSpacing]_vars

\* C4 witness: three upper-only passes within 200 ms, one increment stored
C4_Witness ==
  /\ burstN >= 3 /\ s16pushButtons = 1 /\ eeWrite = NoWrite
  /\ EEPROM0 = burstAtt0 + 1
  /\ U32Sub(u32MillisCur, lastWrCur.at) = U32(DEBOUNCE)

\* C5: setup() with a byte above 49 in EEPROM[0] ends with u8Att = u8AttLast =
\* 0 and has written 0 to EEPROM[0]; with a byte in 0..49 it ends with that
\* byte in u8Att and u8AttLast and has not written.
C5_StartupRecovery ==
  [][pc = "reset" =>
       IF EEPROM0 > ATT_MAX
         THEN u8Att' = 0 /\ u8AttLast' = 0 /\ EEPROM0' = 0 /\ eeWrite' = 0
         ELSE /\ u8Att' = EEPROM0 /\ u8AttLast' = EEPROM0
              /\ EEPROM0' = EEPROM0 /\ eeWrite' = NoWrite]_vars

\* C5 witness: setup() has run on a corrupt byte
C5_Witness ==
  /\ pc = "run" /\ oled.kind = "splash" /\ bootCause = "power"
  /\ eeWrite = 0 /\ EEPROM0 = 0 /\ u8Att = 0 /\ u8AttLast = 0

\* C6: a pass with all three buttons down and the window open jumps to the
\* reset vector (a pass with mask 7 that returns had the window closed); the
\* jump writes nothing and leaves the globals at their initial values, and the
\* setup() that follows ends with u8Att equal to the byte in EEPROM[0], which
\* it does not write.
C6_ChordRestart ==
  [][/\ (PassStep /\ s16pushButtons' = 7) => ~WindowOpen(u32MillisCur', u32MillisLast)
     /\ (pc = "run" /\ pc' = "reset") =>
          /\ WindowOpen(millis, u32MillisLast)
          /\ EEPROM0' = EEPROM0 /\ eeWrite' = NoWrite
          /\ u8Att' = 0 /\ u8AttLast' = 0 /\ bootCause' = "chord"
     /\ (pc = "reset" /\ bootCause = "chord") =>
          /\ u8Att' = EEPROM0 /\ u8AttLast' = EEPROM0
          /\ EEPROM0' = EEPROM0 /\ eeWrite' = NoWrite]_vars

\* C6 witness: setup() has run after a chord and took a non-zero attenuation
\* from EEPROM[0]
C6_Witness ==
  /\ pc = "run" /\ oled.kind = "splash" /\ bootCause = "chord"
  /\ u8Att = EEPROM0 /\ u8Att > 0

TimerReset == ~U32Gt(U32Sub(u32MillisLast', u32MillisCur'), MaxLatency)

\* C10 (as claimed): a pass whose window check passes takes a new time stamp
\* whatever the mask is; a pass whose window check fails leaves it.
C10_ResetOnEveryOpenWindow ==
  [][PassStep =>
       IF WindowOpen(u32MillisCur', u32MillisLast)
         THEN TimerReset
         ELSE u32MillisLast' = u32MillisLast]_vars

\* C10 (amended): a pass whose window check passes with at least one button
\* down takes a new time stamp, whether or not the attenuation changed; a pass
\* whose window check fails, and a pass with no button down, leave it.
C10_ResetWhenButtonDown ==
  [][PassStep =>
       IF WindowOpen(u32MillisCur', u32MillisLast) /\ s16pushButtons' # 0
         THEN TimerReset
         ELSE u32MillisLast' = u32MillisLast]_vars

\* C10 witness: the window was open and no button was down: no new time stamp
C10_Witness ==
  /\ pc = "run" /\ oled.kind = "frame" /\ s16pushButtons = 0
  /\ WindowOpen(u32MillisCur, u32MillisLast)

\* the masks for which the switch of lines 204 - 226 takes the default branch,
\* and the mask 0 for which it is not entered
OtherMasks == {0, 3, 4, 5, 6}

\* C11, checked under SpecNoChord (any mask but the chord in any pass): no step
\* leads back to the reset vector, and a pass with no button, with the lower
\* button alone or with two buttons down leaves u8Att, u8AttLast and EEPROM[0]
\* as they were and writes nothing, whether its window check passed or not.
C11_OtherMasksInert ==
  [][pc = "run" =>
       /\ pc' = "run"
       /\ s16pushButtons' \in OtherMasks =>
            /\ u8Att' = u8Att /\ u8AttLast' = u8AttLast
            /\ EEPROM0' = EEPROM0 /\ eeWrite' = NoWrite]_vars

\* C11 witness: after an earlier write, a pass with middle and lower down had
\* its window open, took the time stamp and wrote nothing
C11_Witness ==
  /\ Acted /\ s16pushButtons = 6 /\ WindowOpen(u32MillisCur, lastWrCur.at)
  /\ lastWrCur.set /\ eeWrite = NoWrite /\ u8Att = EEPROM0 /\ u8Att > 0

Persisted == pc = "run" => (u8Att = u8AttLast /\ u8AttLast = EEPROM0)

RealGt(e, k) == e.ov > 0 \/ U32Gt(e.t, k)

\* C16 (as claimed), checked under SpecWrap: a press that would change the
\* attenuation is acted on exactly when more than 200 ms of real time have
\* gone by since the time stamp, also when the counter wraps in between.
C16_ActsAfter200msReal ==
  [][(PassStep /\ Changing(s16pushButtons', u8Att)) =>
       ((u8Att' # u8Att) <=> RealGt(elapsed, DEBOUNCE))]_vars

ModularElapsed == pc = "run" => U32Sub(millis, u32MillisLast) = elapsed.t

ActsModulo ==
  (PassStep /\ Changing(s16pushButtons', u8Att)) =>
    /\ (u8Att' # u8Att) <=> U32Gt(elapsed.t, DEBOUNCE)
    /\ elapsed.ov = 0 => ((u8Att' # u8Att) <=> RealGt(elapsed, DEBOUNCE))

\* C16 (amended): the difference of line 200 is the real time since the time
\* stamp modulo 2^32, and a press that would change the attenuation is acted
\* on exactly when that difference exceeds 200 ms; while less than 2^32 ms have
\* gone by since the stamp this is the real time, also across the wrap of the
\* counter from 2^32 - 1 to 0.
C16_ActsAfter200msModulo == []ModularElapsed /\ [][ActsModulo]_vars

\* C16 witness: a press accepted before the wrap and a second one accepted in
\* the first 200 ms after it
C16_Witness ==
  /\ pc = "run" /\ s16pushButtons = 1 /\ eeWrite = 2 /\ u8Att = 2
  /\ u32MillisCur.hi = 0 /\ u32MillisCur.lo < DEBOUNCE

HoldStep ==
  PassStep =>
    /\ s16pushButtons' = 1 =>
         u8Att' = IF WindowOpen(u32MillisCur', u32MillisLast) /\ u8Att < ATT_MAX
                    THEN u8Att + 1 ELSE u8Att
    /\ s16pushButtons' = 2 =>
         u8Att' = IF WindowOpen(u32MillisCur', u32MillisLast) /\ u8Att > 0
                    THEN u8Att - 1 ELSE u8Att
    /\ u8Att' # u8Att =>
         /\ eeWrite' = u8Att'
         /\ lastWrCur.set => U32Gt(U32Sub(u32MillisCur', lastWrCur.at), DEBOUNCE)
    /\ u8Att' = u8Att => eeWrite' = NoWrite

HeldUpper == pc = "run" /\ s16pushButtons = 1

HeldMiddle == pc = "run" /\ s16pushButtons = 2

\* C13, checked under SpecHold (one button held, loop() keeps running): with
\* the upper button held the attenuation goes up by one in every pass whose
\* window check passes and in no other, two steps are sampled more than 200 ms
\* apart, each step is written, and the attenuation reaches 49 and from then on
\* stays 49 with no write; with the middle button held it goes down by one the
\* same way, reaches 0 and stays 0 with no write.
C13_HoldReachesLimit ==
  /\ [][HoldStep]_vars
  /\ HeldUpper ~> [](u8Att = ATT_MAX /\ eeWrite = NoWrite)
  /\ HeldMiddle ~> [](u8Att = 0 /\ eeWrite = NoWrite)

\* C13 witness: the upper button was held through at least ATT_MAX - 1 steps,
\* the attenuation is 49 and a pass with the window open has left it 49
\* without a write
C13_Witness ==
  /\ Acted /\ HeldUpper /\ u8Att = ATT_MAX /\ eeWrite = NoWrite
  /\ lastWrCur.set /\ lastWrCur.at.lo >= SPLASH_MS + (ATT_MAX - 1) * DEBOUNCE
  /\ WindowOpen(u32MillisCur, lastWrCur.at)

----------------------------------------------------------------------------
(* Properties of the measurement *)

\* C7 (as claimed), checked under SpecCal: a filtered power sample above 583
\* gives "RF low!", one below 167 gives "RF ovl!", and for one in 167..583 the
\* dBm value before the attenuation is added lies in [-50, +5].
C7_CalibratedRange ==
  (pc = "run" /\ oled.kind = "frame") =>
    /\ s16TmpPwr > PWR_LOW => (strPwrW = "RF low! " /\ strPwrdBm.kind = "dash")
    /\ s16TmpPwr < PWR_OVL => (strPwrW = "RF ovl! " /\ strPwrdBm.kind = "dash")
    /\ s16TmpPwr \in PWR_OVL..PWR_LOW =>
         /\ strPwrdBm.kind = "num"
         /\ fPwrdBm - u8Att * DBM_DEN >= (0 - 50) * DBM_DEN
         /\ fPwrdBm - u8Att * DBM_DEN <= 5 * DBM_DEN

Units == {"nW", "uW", "mW", "W "}

PowerShown ==
  LET s == s16TmpPwr'
  IN  /\ s > PWR_LOW => (strPwrW' = "RF low! " /\ strPwrdBm'.kind = "dash")
      /\ s < PWR_OVL => (strPwrW' = "RF ovl! " /\ strPwrdBm'.kind = "dash")
      /\ s \in PWR_OVL..PWR_LOW =>
           /\ strPwrdBm' = FmtdBm(PwrdBmNum(s) + u8Att' * DBM_DEN)
           /\ strPwrW' \in Units

RestOfPass ==
  /\ u8Att' = IF WindowOpen(u32MillisCur', u32MillisLast)
                THEN AttStep(s16pushButtons', u8Att) ELSE u8Att
  /\ EEPROM0' = u8Att' /\ u8AttLast' = u8Att'
  /\ (eeWrite' # NoWrite) <=> (u8Att' # u8Att)
  /\ as16UPwrRaw' = [as16UPwrRaw EXCEPT ![u8IdxUPwrRaw] = ainPwr']
  /\ u8IdxUPwrRaw' = NextIdx(u8IdxUPwrRaw)
  /\ s16TmpPwr' = FilterAvg(as16UPwrRaw')
  /\ as16UTempRaw' = [as16UTempRaw EXCEPT ![u8IdxUTempRaw] = ainTemp']
  /\ u8IdxUTempRaw' = NextIdx(u8IdxUTempRaw)
  /\ s16TmpTemp' = FilterAvg(as16UTempRaw')
  /\ fTamb' = TambNum(s16TmpTemp')
  /\ strTempAmb' = FmtTemp(fTamb')
  /\ strAtt' = FmtAtt(u8Att')
  /\ oled' = [kind |-> "frame", w |-> strPwrW', dbm |-> strPwrdBm',
              att |-> strAtt', temp |-> strTempAmb']

\* C12, checked under SpecRec: in a pass whose filtered power sample is above
\* 583 or below 167 the dBm string is the placeholder and the W string is
\* "RF low! " or "RF ovl! "; in a pass whose filtered sample is in 167..583 the
\* dBm string is the number, whatever earlier passes showed; and in every pass,
\* in range or not, the attenuation step, the EEPROM write, both filters, the
\* temperature string and the frame on the display are the same functions of
\* the pass's inputs.
C12_LocalRecovery == [][PassStep => (PowerShown /\ RestOfPass)]_vars

\* C12 witness: A1 went from 1023 counts to an in-range level 15 passes ago;
\* 5 slots still hold 1023, the sample of the pass before was 586 (RF low),
\* this one is 555 and the frame shows a number; a press was accepted meanwhile
C12_Witness ==
  /\ pc = "run" /\ oled.kind = "frame" /\ oled.dbm.kind = "num" /\ oled.w \in Units
  /\ chgPwr = 1 /\ runPwr = 15 /\ ainPwr = PwrRest /\ s16TmpPwr = 555
  /\ Cardinality({i \in 0..(NSAMPLES - 1) : as16UPwrRaw[i] = ADC_MAX}) = 5
  /\ u8Att > 0

Slots == 0..(NSAMPLES - 1)

\* slot idx holds the oldest of the NSAMPLES latest samples, the slots after it
\* (cyclically) the younger ones in the order they were read
RingHolds(buf, idx, read) ==
  /\ idx \in Slots
  /\ Len(read) = NSAMPLES
  /\ \A j \in Slots : buf[(idx + j) % NSAMPLES] = read[j + 1]

RingInv ==
  /\ u8IdxUPwrRaw \in Slots /\ u8IdxUTempRaw \in Slots
  /\ pc = "run" =>
       /\ RingHolds(as16UPwrRaw, u8IdxUPwrRaw, readPwr)
       /\ RingHolds(as16UTempRaw, u8IdxUTempRaw, readTemp)

RingStep ==
  PassStep =>
    /\ as16UPwrRaw[u8IdxUPwrRaw] = readPwr[1]
    /\ as16UPwrRaw' = [as16UPwrRaw EXCEPT ![u8IdxUPwrRaw] = ainPwr']
    /\ u8IdxUPwrRaw' = (u8IdxUPwrRaw + 1) % NSAMPLES
    /\ as16UTempRaw[u8IdxUTempRaw] = readTemp[1]
    /\ as16UTempRaw' = [as16UTempRaw EXCEPT ![u8IdxUTempRaw] = ainTemp']
    /\ u8IdxUTempRaw' = (u8IdxUTempRaw + 1) % NSAMPLES

\* C14, checked under SpecRing: both write indices are always in 0..19; once
\* setup() has run (after power-on and after a restart, before any frame) and
\* after every pass each buffer holds the NSAMPLES latest samples read from its
\* own input, the oldest in the slot at the write index; a pass replaces that
\* slot by the new sample of the same input, leaves the other 19 slots, and
\* moves the index on by one modulo NSAMPLES.
C14_RingBuffer == []RingInv /\ [][RingStep]_vars

\* C14 witness: after a restart and two level changes on A1 the index has
\* wrapped: the 21st pass replaced slot 0, and all slots hold the latest level
C14_Witness ==
  /\ pc = "run" /\ oled.kind = "frame" /\ bootCause = "chord"
  /\ chgPwr = 2 /\ runPwr = NSAMPLES /\ u8IdxUPwrRaw = 1
  /\ \A i \in Slots : as16UPwrRaw[i] = ADC_MAX

RECURSIVE TrueSum(_, _)
TrueSum(buf, n) == IF n = 0 THEN 0 ELSE TrueSum(buf, n - 1) + buf[n - 1]

BufMin(buf) == CHOOSE v \in {buf[i] : i \in Slots} : \A i \in Slots : v <= buf[i]

BufMax(buf) == CHOOSE v \in {buf[i] : i \in Slots} : \A i \in Slots : v >= buf[i]

AvgOk(buf, out) ==
  /\ \A n \in 0..NSAMPLES :
       /\ Accumulate(buf, n) = TrueSum(buf, n)
       /\ Accumulate(buf, n) <= NSAMPLES * ADC_MAX
  /\ pc = "filtered" =>
       /\ out = TrueSum(buf, NSAMPLES) \div NSAMPLES
       /\ out \in 0..ADC_MAX
       /\ BufMin(buf) <= out /\ out <= BufMax(buf)

\* C17, checked under SpecAvg: for buffers with every slot in 0..1023 the
\* int16_t accumulator equals the true sum after every addition (at most
\* 20460), and the filter output is that sum divided by 20, rounded down: a
\* value in 0..1023, not below the smallest and not above the largest slot.
C17_AccumulatorFits ==
  /\ \A i \in Slots : as16UPwrRaw[i] \in 0..ADC_MAX /\ as16UTempRaw[i] \in 0..ADC_MAX
  /\ AvgOk(as16UPwrRaw, s16TmpPwr)
  /\ AvgOk(as16UTempRaw, s16TmpTemp)

\* C17 witness: every slot holds 1023, the sum was 20460 and the output is 1023
C17_Witness ==
  /\ pc = "filtered" /\ \A i \in Slots : as16UPwrRaw[i] = ADC_MAX
  /\ Accumulate(as16UPwrRaw, NSAMPLES) = NSAMPLES * ADC_MAX
  /\ s16TmpPwr = ADC_MAX /\ s16TmpTemp = ADC_MAX

\* tenths of a dBm shown for the filtered sample s with the attenuation att
ShowndBm(s, att) == RoundHalfAway(10 * (PwrdBmNum(s) + att * DBM_DEN), DBM_DEN)

FrameConsistent ==
  (pc = "run" /\ oled.kind = "frame") =>
    /\ oled.w = strPwrW /\ oled.dbm = strPwrdBm
    /\ oled.att = strAtt /\ oled.temp = strTempAmb
    /\ oled.att.kind = "num" /\ oled.att.val = u8Att
    /\ s16TmpPwr \in PWR_OVL..PWR_LOW =>
         /\ oled.dbm.kind = "num"
         /\ oled.dbm.val = ShowndBm(s16TmpPwr, oled.att.val)
         /\ fPwrdBm = PwrdBmNum(s16TmpPwr) + oled.att.val * DBM_DEN

FreshStep ==
  (PassStep /\ u8Att' # u8Att /\ s16TmpPwr' \in PWR_OVL..PWR_LOW) =>
    /\ oled'.kind = "frame" /\ oled'.att.val = u8Att'
    /\ oled'.dbm.val = ShowndBm(s16TmpPwr', u8Att')
    /\ oled'.dbm.val # ShowndBm(s16TmpPwr', u8Att)

\* C18, checked under Spec: the frame sent at the end of a pass shows the four
\* strings built in that pass; when the filtered power sample of the pass is in
\* 167..583 the dBm number shown is the calibrated value of that sample plus
\* the attenuation shown in the same frame, which is u8Att; a pass that changes
\* the attenuation shows the new value and the reading with the new value.
C18_FrameConsistent == []FrameConsistent /\ [][FreshStep]_vars

\* C18 witness: the pass stepped the attenuation from 48 to 49 and its frame
\* shows 49 dB and -13.6 + 49 = 35.4 dBm, in W
C18_Witness ==
  /\ Acted /\ s16pushButtons = 1 /\ eeWrite = ATT_MAX
  /\ oled.att.val = ATT_MAX /\ oled.dbm.kind = "num" /\ oled.dbm.val = 354
  /\ oled.w = "W " /\ s16TmpPwr = PwrRest

\* C8, checked under SpecFilter: once the same sample v was inserted in
\* NSAMPLES passes in a row, whatever the buffer held before, the filter output
\* of that channel is v, and it stays v while v is inserted.
C8_SteadyState ==
  /\ runPwr >= NSAMPLES => s16TmpPwr = ainPwr
  /\ runTemp >= NSAMPLES => s16TmpTemp = ainTemp

\* C8 witness: the level on A1 changed twice, then 1023 was inserted NSAMPLES
\* times and the output is 1023
C8_Witness ==
  /\ runPwr = NSAMPLES /\ chgPwr = 2
  /\ ainPwr = ADC_MAX /\ s16TmpPwr = ADC_MAX

\* C9, checked under SpecRange: the unit is nW exactly for d < -30, uW for
\* -30 <= d < 0, mW for 0 <= d < 30 and W for d >= 30, so every value has one
\* unit and -30.0, 0.0 and 30.0 fall to uW, mW and W.
C9_Autorange ==
  pc = "formatted" =>
    /\ strPwrW = "nW" <=> fPwrdBm < (0 - 30) * DBM_DEN
    /\ strPwrW = "uW" <=> ((0 - 30) * DBM_DEN <= fPwrdBm /\ fPwrdBm < 0)
    /\ strPwrW = "mW" <=> (0 <= fPwrdBm /\ fPwrdBm < 30 * DBM_DEN)
    /\ strPwrW = "W " <=> fPwrdBm >= 30 * DBM_DEN
    /\ strPwrdBm.kind = "num"

\* C9 witness: exactly 30.0 dBm was formatted in W
C9_Witness ==
  pc = "formatted" /\ fPwrdBm = 30 * DBM_DEN /\ strPwrW = "W " /\ strPwrdBm.val = 300

====
